---- MODULE Spec2Model ----
(***************************************************************************)
(* A model of @hoajs/language (src/src/index.ts): the language detector    *)
(* middleware.  Text is modelled as a sequence of one-character strings,   *)
(* so that trim, toLowerCase, split and the comparison against the         *)
(* supported languages are computed, character by character, as the code   *)
(* computes them.                                                          *)
(***************************************************************************)
EXTENDS Integers, Sequences, FiniteSets, TLC

(***************************************************************************)
(* Bounds of the model.                                                    *)
(***************************************************************************)
\* longest `order` array a configuration holds
MaxOrder == 2
\* longest raw candidate text (query value, cookie value, path segment)
MaxStrLen == 2

(***************************************************************************)
(* JavaScript values.  Every value is a record [k, s]: k is the kind and   *)
(* s the characters of a string (empty for the other kinds).               *)
(***************************************************************************)
Undefined == [k |-> "undefined", s |-> <<>>]

Null == [k |-> "null", s |-> <<>>]

False == [k |-> "false", s |-> <<>>]

\* a string[] value, as a repeated query parameter gives
ArrayValue == [k |-> "array", s |-> <<>>]

Str(chars) == [k |-> "string", s |-> chars]

\* not a value: the call threw instead of returning
Raised == [k |-> "raised", s |-> <<>>]

\* JavaScript truthiness of a value: `if (v)`
Truthy(v) == \/ v.k = "array"
             \/ v.k = "string" /\ v.s # <<>>

(***************************************************************************)
(* Text.                                                                   *)
(***************************************************************************)
Letters == {"a", "A", "b"}

Whitespace == {" "}

Chars == Letters \cup Whitespace

RECURSIVE SeqsUpTo(_, _)
SeqsUpTo(S, n) ==
    IF n = 0 THEN {<<>>}
    ELSE LET shorter == SeqsUpTo(S, n - 1)
         IN  shorter \cup {Append(t, c) : t \in shorter, c \in S}

Texts == SeqsUpTo(Chars, MaxStrLen)

\* String.prototype.toLowerCase, one character
LowerChar(c) == CASE c = "A" -> "a"
                  [] c = "B" -> "b"
                  [] OTHER -> c

\* String.prototype.toUpperCase, one character
UpperChar(c) == CASE c = "a" -> "A"
                  [] c = "b" -> "B"
                  [] OTHER -> c

toLowerCase(t) == [i \in 1..Len(t) |-> LowerChar(t[i])]

toUpperCase(t) == [i \in 1..Len(t) |-> UpperChar(t[i])]

RECURSIVE trimStart(_)
trimStart(t) ==
    IF t = <<>> THEN t
    ELSE IF Head(t) \in Whitespace THEN trimStart(Tail(t)) ELSE t

RECURSIVE trimEnd(_)
trimEnd(t) ==
    IF t = <<>> THEN t
    ELSE IF t[Len(t)] \in Whitespace THEN trimEnd(SubSeq(t, 1, Len(t) - 1)) ELSE t

\* String.prototype.trim
trim(t) == trimEnd(trimStart(t))

\* Array.prototype.includes on a sequence
Includes(arr, x) == \E i \in 1..Len(arr) : arr[i] = x

\* Array.prototype.indexOf, 1-based; 0 when x does not occur
IndexOf(arr, x) ==
    IF Includes(arr, x)
    THEN CHOOSE i \in 1..Len(arr) : arr[i] = x /\ \A j \in 1..(i - 1) : arr[j] # x
    ELSE 0

(***************************************************************************)
(* Options (DetectorOptions).                                              *)
(***************************************************************************)
DetectorTypes == {"path", "querystring", "cookie", "header"}

en == <<"e", "n">>

\* The conversion hooks a configuration may hold.  "none" is an absent
\* convertDetectedLanguage; the others are user functions: toUpperCase and an
\* always-throwing hook as in the test-suite, an alias table, and a hook that
\* ignores its argument.
Hooks == {"none", "upper", "throws", "alias", "constant"}

\* The outcome of options.convertDetectedLanguage(t): raised, or a new text.
Convert(hook, t) ==
    CASE hook = "upper" -> [raised |-> FALSE, s |-> toUpperCase(t)]
      [] hook = "throws" -> [raised |-> TRUE, s |-> t]
      [] hook = "alias" -> [raised |-> FALSE, s |-> IF t = <<"b">> THEN <<"A">> ELSE t]
      [] hook = "constant" -> [raised |-> FALSE, s |-> <<"a">>]
      [] OTHER -> [raised |-> FALSE, s |-> t]

DEFAULT_OPTIONS ==
    [order |-> <<"querystring", "cookie", "header">>,
     lookupCookie |-> "language",
     lookupFromPathIndex |-> 0,
     caches |-> [k |-> "array", v |-> <<"cookie">>],
     ignoreCase |-> TRUE,
     fallbackLanguage |-> en,
     supportedLanguages |-> <<en>>,
     convertDetectedLanguage |-> "none"]

(***************************************************************************)
(* normalizeLanguage                                                       *)
(***************************************************************************)
\* returning the compared form instead of the stored element
MatchedLanguageAsCompared(compLang, compSupported, supportedLanguages) ==
    IF Includes(compSupported, compLang) /\ compLang # <<>>
    THEN Str(compLang)
    ELSE Undefined

\* the element the code returns once the comparison forms are built
MatchedLanguage(compLang, compSupported, supportedLanguages) ==
    IF Includes(compSupported, compLang) /\ compLang # <<>>
    THEN Str(supportedLanguages[IndexOf(compSupported, compLang)])
    ELSE Undefined

\* a normalizeLanguage without its try/catch
CatchesHookErrorNot == FALSE

\* the try/catch around the conversion and the comparison: TRUE when the
\* error of the hook is swallowed
CatchesHookError == TRUE

normalizeLanguage(lang, options) ==
    IF ~Truthy(lang) THEN Undefined
    ELSE IF lang.k = "array" THEN Undefined
    ELSE LET trimmed == trim(lang.s)
             conv == IF options.convertDetectedLanguage # "none"
                     THEN Convert(options.convertDetectedLanguage, trimmed)
                     ELSE [raised |-> FALSE, s |-> trimmed]
             compLang == IF options.ignoreCase THEN toLowerCase(conv.s) ELSE conv.s
             compSupported ==
                 [i \in 1..Len(options.supportedLanguages) |->
                     IF options.ignoreCase
                     THEN toLowerCase(options.supportedLanguages[i])
                     ELSE options.supportedLanguages[i]]
         IN  IF conv.raised THEN (IF CatchesHookError THEN Undefined ELSE Raised)
             ELSE MatchedLanguage(compLang, compSupported, options.supportedLanguages)

\* whether the conversion hook is reached for this candidate and raises
HookRaises(lang, options) ==
    /\ Truthy(lang)
    /\ lang.k = "string"
    /\ options.convertDetectedLanguage # "none"
    /\ Convert(options.convertDetectedLanguage, trim(lang.s)).raised

(***************************************************************************)
(* validateOptions: the error message thrown, or "ok"                      *)
(***************************************************************************)
\* a validation that forgets the order array
validateOptionsNoOrderCheck(options) ==
    IF ~Includes(options.supportedLanguages, options.fallbackLanguage)
    THEN "Fallback language must be included in supported languages"
    ELSE IF options.lookupFromPathIndex < 0
    THEN "Path index must be non-negative"
    ELSE "ok"

validateOptions(options) ==
    IF ~Includes(options.supportedLanguages, options.fallbackLanguage)
    THEN "Fallback language must be included in supported languages"
    ELSE IF options.lookupFromPathIndex < 0
    THEN "Path index must be non-negative"
    ELSE IF ~(\A i \in 1..Len(options.order) : options.order[i] \in DetectorTypes)
    THEN "Invalid detector type in order array"
    ELSE "ok"

(***************************************************************************)
(* detectFromPath helpers                                                  *)
(***************************************************************************)
\* String.prototype.split on a one-character separator
RECURSIVE Split(_, _)
Split(t, sep) ==
    IF \A i \in 1..Len(t) : t[i] # sep THEN <<t>>
    ELSE LET i == CHOOSE i \in 1..Len(t) :
                      t[i] = sep /\ \A j \in 1..(i - 1) : t[j] # sep
         IN  <<SubSeq(t, 1, i - 1)>> \o Split(SubSeq(t, i + 1, Len(t)), sep)

\* Array.prototype.filter(Boolean) on an array of strings
RECURSIVE FilterNonEmpty(_)
FilterNonEmpty(arr) ==
    IF arr = <<>> THEN <<>>
    ELSE IF Head(arr) = <<>> THEN FilterNonEmpty(Tail(arr))
    ELSE <<Head(arr)>> \o FilterNonEmpty(Tail(arr))

\* pathSegments[options.lookupFromPathIndex], 0-based; undefined out of range
PathSegment(pathname, index) ==
    LET pathSegments == FilterNonEmpty(Split(pathname, "/"))
    IN  IF index + 1 \in 1..Len(pathSegments)
        THEN Str(pathSegments[index + 1])
        ELSE Undefined

(***************************************************************************)
(* parseAccept (./utils.ts): the header value parser and its quality       *)
(* resolver.  Numbers are kept in thousandths (Scale), so q = 0.9 is 900.  *)
(***************************************************************************)
Scale == 10 * 10 * 10

Digits == {"0", "1", "2", "3", "4", "5", "6", "7", "8", "9"}

Quotes == {"\"", "'"}

DigitValue(c) ==
    CASE c = "0" -> 0 [] c = "1" -> 1 [] c = "2" -> 2 [] c = "3" -> 3
      [] c = "4" -> 4 [] c = "5" -> 5 [] c = "6" -> 6 [] c = "7" -> 7
      [] c = "8" -> 8 [] OTHER -> 9

\* a scan that ends the token at every separator, quoted or not
RECURSIVE ScanTokenQuoteBlind(_, _, _, _)
ScanTokenQuoteBlind(t, sep, quote, acc) ==
    IF t = <<>> THEN [token |-> acc, rest |-> <<>>, more |-> FALSE]
    ELSE IF Head(t) = sep
    THEN [token |-> acc, rest |-> Tail(t), more |-> TRUE]
    ELSE ScanTokenQuoteBlind(Tail(t), sep, quote, Append(acc, Head(t)))

\* the part of t before the first separator outside quotes, and the rest
\* after it; `quote` is the quote character the scan is inside of, or ""
RECURSIVE ScanToken(_, _, _, _)
ScanToken(t, sep, quote, acc) ==
    IF t = <<>> THEN [token |-> acc, rest |-> <<>>, more |-> FALSE]
    ELSE LET c == Head(t)
         IN  IF quote = "" /\ c = sep
             THEN [token |-> acc, rest |-> Tail(t), more |-> TRUE]
             ELSE ScanToken(Tail(t), sep,
                            IF quote = "" THEN (IF c \in Quotes THEN c ELSE "")
                            ELSE (IF c = quote THEN "" ELSE quote),
                            Append(acc, c))

\* split on a separator, ignoring separators inside quoted spans
RECURSIVE SplitQuoteAware(_, _)
SplitQuoteAware(t, sep) ==
    LET first == ScanToken(t, sep, "", <<>>)
    IN  IF first.more
        THEN <<first.token>> \o SplitQuoteAware(first.rest, sep)
        ELSE <<first.token>>

CountChar(t, c) == Cardinality({i \in 1..Len(t) : t[i] = c})

\* a chunk parser that accepts any chunk holding a `=`, cut at the first one
ParseParamFirstEquals(chunk) ==
    IF CountChar(chunk, "=") = 0 THEN [ok |-> FALSE, key |-> <<>>, value |-> <<>>]
    ELSE LET i == CHOOSE i \in 1..Len(chunk) :
                      chunk[i] = "=" /\ \A j \in 1..(i - 1) : chunk[j] # "="
             key == trim(SubSeq(chunk, 1, i - 1))
             value == trim(SubSeq(chunk, i + 1, Len(chunk)))
         IN  [ok |-> key # <<>>, key |-> key, value |-> value]

\* the accepted key/value pair of one parameter chunk, or none
ParseParam(chunk) ==
    IF CountChar(chunk, "=") # 1 THEN [ok |-> FALSE, key |-> <<>>, value |-> <<>>]
    ELSE LET i == CHOOSE i \in 1..Len(chunk) : chunk[i] = "="
             key == trim(SubSeq(chunk, 1, i - 1))
             value == trim(SubSeq(chunk, i + 1, Len(chunk)))
         IN  [ok |-> key # <<>>, key |-> key, value |-> value]

\* the parameter mapping of an entry: a function from keys to values, a
\* later accepted chunk replacing an earlier one with the same key
RECURSIVE ParseParams(_, _)
ParseParams(chunks, acc) ==
    IF chunks = <<>> THEN acc
    ELSE LET p == ParseParam(Head(chunks))
         IN  ParseParams(Tail(chunks),
                 IF p.ok
                 THEN [k \in (DOMAIN acc) \cup {p.key} |->
                          IF k = p.key THEN p.value ELSE acc[k]]
                 ELSE acc)

RECURSIVE DigitsValue(_, _)
DigitsValue(t, acc) ==
    IF t = <<>> THEN acc ELSE DigitsValue(Tail(t), 10 * acc + DigitValue(Head(t)))

AllDigits(t) == \A i \in 1..Len(t) : t[i] \in Digits

\* the first three decimals of a fraction, in thousandths
FractionValue(t) ==
    LET d(i) == IF i <= Len(t) THEN DigitValue(t[i]) ELSE 0
    IN  100 * d(1) + 10 * d(2) + d(3)

Infinity == <<"I", "n", "f", "i", "n", "i", "t", "y">>

\* the number a text denotes: sign, decimals, Infinity; anything else NaN
ParseNumber(t) ==
    LET signed == t # <<>> /\ Head(t) \in {"+", "-"}
        negative == signed /\ Head(t) = "-"
        body == IF signed THEN Tail(t) ELSE t
        parts == Split(body, ".")
        whole == parts[1]
        fraction == IF Len(parts) = 2 THEN parts[2] ELSE <<>>
        magnitude == Scale * DigitsValue(whole, 0) + FractionValue(fraction)
    IN  IF body = Infinity
        THEN [kind |-> IF negative THEN "-Infinity" ELSE "Infinity", v |-> 0]
        ELSE IF /\ Len(parts) <= 2
                /\ AllDigits(whole)
                /\ AllDigits(fraction)
                /\ whole \o fraction # <<>>
        THEN [kind |-> "number", v |-> IF negative THEN 0 - magnitude ELSE magnitude]
        ELSE [kind |-> "NaN", v |-> 0]

\* a resolver that sends the NaN token to 0 and every out-of-range number to 1
QualityResolverRangeDefault(params) ==
    IF <<"q">> \notin DOMAIN params THEN Scale
    ELSE IF params[<<"q">>] = <<>> THEN Scale
    ELSE LET n == ParseNumber(params[<<"q">>])
         IN  CASE params[<<"q">>] = <<"N", "a", "N">> -> 0
               [] n.kind = "NaN" -> Scale
               [] n.kind = "Infinity" -> Scale
               [] n.kind = "-Infinity" -> 0
               [] OTHER -> IF n.v > Scale \/ n.v < 0 THEN Scale ELSE n.v

\* QualityResolver: the quality of an entry from its parameter mapping
QualityResolver(params) ==
    IF <<"q">> \notin DOMAIN params THEN Scale
    ELSE IF params[<<"q">>] = <<>> THEN Scale
    ELSE LET n == ParseNumber(params[<<"q">>])
         IN  CASE n.kind = "NaN" -> Scale
               [] n.kind = "Infinity" -> Scale
               [] n.kind = "-Infinity" -> 0
               [] OTHER -> IF n.v > Scale THEN Scale ELSE IF n.v < 0 THEN 0 ELSE n.v

\* one entry of the header, or none when its type is empty
ParseEntry(segment) ==
    LET parts == SplitQuoteAware(segment, ";")
        params == ParseParams(Tail(parts), <<>>)
    IN  [type |-> trim(parts[1]), params |-> params, q |-> QualityResolver(params)]

\* a list builder that keeps the entries of empty segments
RECURSIVE ParseEntriesKeepEmpty(_)
ParseEntriesKeepEmpty(segments) ==
    IF segments = <<>> THEN <<>>
    ELSE <<ParseEntry(Head(segments))>> \o ParseEntriesKeepEmpty(Tail(segments))

RECURSIVE ParseEntries(_)
ParseEntries(segments) ==
    IF segments = <<>> THEN <<>>
    ELSE LET e == ParseEntry(Head(segments))
         IN  (IF e.type = <<>> THEN <<>> ELSE <<e>>) \o ParseEntries(Tail(segments))

\* an insertion that puts e in front of the entries of its own quality
RECURSIVE InsertByQualityBeforeTies(_, _)
InsertByQualityBeforeTies(sorted, e) ==
    IF sorted = <<>> THEN <<e>>
    ELSE IF Head(sorted).q > e.q
    THEN <<Head(sorted)>> \o InsertByQualityBeforeTies(Tail(sorted), e)
    ELSE <<e>> \o sorted

\* insert e behind every entry whose quality is at least e.q
RECURSIVE InsertByQuality(_, _)
InsertByQuality(sorted, e) ==
    IF sorted = <<>> THEN <<e>>
    ELSE IF Head(sorted).q >= e.q
    THEN <<Head(sorted)>> \o InsertByQuality(Tail(sorted), e)
    ELSE <<e>> \o sorted

\* stable sort by descending quality
RECURSIVE SortByQuality(_, _)
SortByQuality(entries, sorted) ==
    IF entries = <<>> THEN sorted
    ELSE SortByQuality(Tail(entries), InsertByQuality(sorted, Head(entries)))

\* header is a value: undefined, null or a string
parseAccept(header) ==
    IF ~Truthy(header) THEN <<>>
    ELSE SortByQuality(ParseEntries(SplitQuoteAware(header.s, ",")), <<>>)

\* parseAcceptLanguage: the { lang, q } view of the parsed entries
parseAcceptLanguage(header) ==
    LET parsed == parseAccept(header)
    IN  [i \in 1..Len(parsed) |-> [lang |-> parsed[i].type, q |-> parsed[i].q]]

(***************************************************************************)
(* The state.                                                              *)
(***************************************************************************)
VARIABLES
    pc,             \* where the program is: see Init and the actions
    options,        \* the merged DetectorOptions the handler closes over
    ctorError,      \* the message language() threw, or "none"
    ctx,            \* the request context: capabilities, ctx.language, status
    idx,            \* position of the detectLanguage loop in options.order
    detectedLang,   \* detectLanguage's local variable
    finalLang,      \* detectLanguage's local variable
    trace,          \* history: the detector calls of this request, in order
    setCookieCalls, \* the ctx.res.setCookie calls of this request, in order
    nextCalls,      \* how many times next() was called for this request
    candidate,      \* argument of a direct normalizeLanguage call
    result,         \* its return value
    other           \* a second request of the same handler, while it is not running

vars == <<pc, options, ctorError, ctx, idx, detectedLang, finalLang, trace,
          setCookieCalls, nextCalls, candidate, result, other>>

NoCtx == [hasGetCookie |-> FALSE, hasSetCookie |-> FALSE,
          language |-> Undefined, status |-> 0, rejected |-> "none"]

\* a request that has not been handed to the handler yet
NewRequest ==
    [pc |-> "idle", ctx |-> NoCtx, idx |-> 0, detectedLang |-> Undefined,
     finalLang |-> Undefined, trace |-> <<>>, setCookieCalls |-> <<>>, nextCalls |-> 0]

(***************************************************************************)
(* The configurations and the requests the model draws from.               *)
(***************************************************************************)
Orders == SeqsUpTo(DetectorTypes \cup {"invalid"}, MaxOrder)

\* caches: false, [], ['cookie'], and a truthy string that is no array
CachesValues ==
    {[k |-> "false", v |-> <<>>],
     [k |-> "array", v |-> <<>>],
     [k |-> "array", v |-> <<"cookie">>],
     [k |-> "string", v |-> <<"cookie">>]}

LanguageLists == {<<<<"a">>>>, <<<<"A">>, <<"b">>>>}

Fallbacks == {<<"a">>, <<"b">>}

PipelineHooks == {"none", "throws", "constant"}

\* language() called without an argument: userOptions = {}
NoOptions == [f \in {} |-> Undefined]

\* the userOptions objects passed to language().  As in the test-suite a
\* caller gives some of the fields and the others come from DEFAULT_OPTIONS:
\* the fields of the pipeline and its cache, the fields of detection and
\* normalization, the languages alone, or nothing at all
UserOptions ==
    [order : Orders,
     lookupCookie : {"language", "locale"},
     caches : CachesValues,
     fallbackLanguage : Fallbacks,
     supportedLanguages : LanguageLists]
    \cup [order : Orders,
          lookupFromPathIndex : {-1, 0, 1},
          ignoreCase : BOOLEAN,
          convertDetectedLanguage : PipelineHooks,
          fallbackLanguage : Fallbacks,
          supportedLanguages : LanguageLists]
    \cup [fallbackLanguage : Fallbacks, supportedLanguages : LanguageLists]
    \cup {NoOptions}

\* { ...DEFAULT_OPTIONS, ...userOptions }
Merge(defaults, userOptions) ==
    [f \in DOMAIN defaults |->
        IF f \in DOMAIN userOptions THEN userOptions[f] ELSE defaults[f]]

QueryValues == {Undefined, ArrayValue} \cup {Str(t) : t \in Texts}

CookieValues == {Undefined, False} \cup {Str(t) : t \in Texts}

HeaderValues ==
    {Undefined,
     Str(<<>>),
     Str(<<"b">>),
     Str(<<"c", ",", " ", "A">>),
     Str(<<"a", ";", "q", "=", "0", ",", "b">>),
     Str(<<"b", ";", "q", "=", "0", ".", "5", ",", "a", ";", "q", "=", "0", ".", "5">>)}

PathChars == {"/", "a", "b"}

Pathnames == {<<"/">> \o t : t \in SeqsUpTo(PathChars, MaxStrLen + 1)}

(***************************************************************************)
(* The detectors.  Each gives [out, raised, hook]: the value returned,     *)
(* whether the detector threw instead, and whether it normalized some      *)
(* candidate and the conversion hook raised on every one it normalized.    *)
(***************************************************************************)
Returned(out, hook) ==
    IF out = Raised THEN [out |-> Undefined, raised |-> TRUE, hook |-> hook]
    ELSE [out |-> out, raised |-> FALSE, hook |-> hook]

Threw == [out |-> Undefined, raised |-> TRUE, hook |-> FALSE]

\* detectFromQuery, given ctx.req.query[options.lookupQueryString]
detectFromQuery(query, opts) ==
    Returned(normalizeLanguage(query, opts), HookRaises(query, opts))

\* detectFromCookie, given what ctx.req.getCookie resolved to
detectFromCookie(cookie, opts) ==
    IF cookie = False THEN Returned(Undefined, FALSE)
    ELSE Returned(normalizeLanguage(cookie, opts), HookRaises(cookie, opts))

\* a loop that gives up after the entry of highest quality
FirstNormalizedHeadOnly(languages, opts) ==
    IF languages = <<>> THEN Undefined
    ELSE normalizeLanguage(Str(Head(languages).lang), opts)

\* a loop that passes over the entries of quality 0
RECURSIVE FirstNormalizedSkipZero(_, _)
FirstNormalizedSkipZero(languages, opts) ==
    IF languages = <<>> THEN Undefined
    ELSE LET normalizedLang == normalizeLanguage(Str(Head(languages).lang), opts)
         IN  IF Head(languages).q # 0
                /\ (Truthy(normalizedLang) \/ normalizedLang = Raised)
             THEN normalizedLang
             ELSE FirstNormalizedSkipZero(Tail(languages), opts)

\* the first language of the list that normalizes
RECURSIVE FirstNormalized(_, _)
FirstNormalized(languages, opts) ==
    IF languages = <<>> THEN Undefined
    ELSE LET normalizedLang == normalizeLanguage(Str(Head(languages).lang), opts)
         IN  IF Truthy(normalizedLang) \/ normalizedLang = Raised THEN normalizedLang
             ELSE FirstNormalized(Tail(languages), opts)

\* detectFromHeader, given ctx.req.get(options.lookupFromHeaderKey)
detectFromHeader(acceptLanguage, opts) ==
    IF ~Truthy(acceptLanguage) THEN Returned(Undefined, FALSE)
    ELSE LET languages == parseAcceptLanguage(acceptLanguage)
         IN  Returned(FirstNormalized(languages, opts),
                      /\ languages # <<>>
                      /\ \A i \in 1..Len(languages) :
                            HookRaises(Str(languages[i].lang), opts))

\* detectFromPath, given ctx.req.pathname
detectFromPath(pathname, opts) ==
    LET langSegment == PathSegment(pathname, opts.lookupFromPathIndex)
    IN  Returned(normalizeLanguage(langSegment, opts), HookRaises(langSegment, opts))

(***************************************************************************)
(* Construction: language(userOptions)                                     *)
(***************************************************************************)
Init ==
    /\ pc = "new"
    /\ options = DEFAULT_OPTIONS
    /\ ctorError = "none"
    /\ ctx = NoCtx
    /\ idx = 0
    /\ detectedLang = Undefined
    /\ finalLang = Undefined
    /\ trace = <<>>
    /\ setCookieCalls = <<>>
    /\ nextCalls = 0
    /\ other = NewRequest
    /\ candidate = Undefined
    /\ result = Undefined

requestVars == <<ctx, idx, detectedLang, finalLang, trace, setCookieCalls, nextCalls>>

normVars == <<candidate, result>>

\* language(): merge, validate, and return the handler or throw
Language ==
    /\ pc = "new"
    /\ \E userOptions \in UserOptions :
          LET merged == Merge(DEFAULT_OPTIONS, userOptions)
              verdict == validateOptions(merged)
          IN  /\ options' = merged
              /\ ctorError' = IF verdict = "ok" THEN "none" ELSE verdict
              /\ pc' = IF verdict = "ok" THEN "idle" ELSE "threw"
    /\ UNCHANGED <<requestVars, normVars, other>>

(***************************************************************************)
(* A request: languageMiddleware(ctx, next)                                *)
(***************************************************************************)
\* a check that asks for one capability only
validateCookiePluginEither(c) == ~c.hasGetCookie /\ ~c.hasSetCookie

\* validateCookiePlugin: TRUE when ctx.throw(500, ...) is called
validateCookiePlugin(c) == ~c.hasGetCookie \/ ~c.hasSetCookie

\* the handler is called: validateCookiePlugin, then detectLanguage starts
LanguageMiddleware ==
    /\ pc = "idle"
    /\ \E get \in BOOLEAN, set \in BOOLEAN :
          LET fresh == [NoCtx EXCEPT !.hasGetCookie = get, !.hasSetCookie = set]
          IN  IF validateCookiePlugin(fresh)
              THEN /\ ctx' = [fresh EXCEPT !.status = 500, !.rejected = "cookie plugin"]
                   /\ pc' = "rejected"
                   /\ idx' = 0
              ELSE /\ ctx' = fresh
                   /\ idx' = 1
                   /\ pc' = IF Len(options.order) = 0 THEN "afterLoop" ELSE "loop"
    /\ detectedLang' = Undefined
    /\ finalLang' = Undefined
    /\ trace' = <<>>
    /\ setCookieCalls' = <<>>
    /\ nextCalls' = 0
    /\ UNCHANGED <<options, ctorError, normVars, other>>

\* a loop that never breaks
ShouldBreakNever(lang) == FALSE

\* `if (detectedLang) break`
ShouldBreak(lang) == Truthy(lang)

\* a loop without its catch clause
CatchesDetectorErrorNot == FALSE

\* the catch clause of the loop: TRUE when the error is swallowed
CatchesDetectorError == TRUE

\* one turn of the detectLanguage loop, given what the detector did
LoopTurn(name, outcome) ==
    LET entry == [name |-> name, out |-> outcome.out,
                  raised |-> outcome.raised, hook |-> outcome.hook]
        leave == ~outcome.raised /\ ShouldBreak(outcome.out)
    IN  /\ trace' = Append(trace, entry)
        /\ IF outcome.raised /\ ~CatchesDetectorError
           THEN /\ pc' = "rejected"
                /\ ctx' = [ctx EXCEPT !.rejected = "detector"]
                /\ UNCHANGED <<idx, detectedLang>>
           ELSE /\ detectedLang' = IF outcome.raised THEN detectedLang ELSE outcome.out
                /\ idx' = IF leave THEN idx ELSE idx + 1
                /\ pc' = IF leave \/ idx + 1 > Len(options.order)
                         THEN "afterLoop" ELSE "loop"
                /\ UNCHANGED ctx
        /\ UNCHANGED <<options, ctorError, finalLang, setCookieCalls, nextCalls, normVars, other>>

AtDetector(name) ==
    /\ pc = "loop"
    /\ idx \in 1..Len(options.order)
    /\ options.order[idx] = name

DetectFromQuery ==
    /\ AtDetector("querystring")
    /\ \/ \E query \in QueryValues :
             LoopTurn("querystring", detectFromQuery(query, options))
       \/ LoopTurn("querystring", Threw)

\* detectFromCookie calls ctx.req.getCookie and waits for it
DetectFromCookie ==
    /\ AtDetector("cookie")
    /\ pc' = "getCookie"
    /\ UNCHANGED <<options, ctorError, requestVars, normVars, other>>

\* getCookie resolves or rejects, and the loop turn completes
GetCookieSettled ==
    /\ pc = "getCookie"
    /\ \/ \E cookie \in CookieValues :
             LoopTurn("cookie", detectFromCookie(cookie, options))
       \/ LoopTurn("cookie", Threw)

DetectFromHeader ==
    /\ AtDetector("header")
    /\ \/ \E acceptLanguage \in HeaderValues :
             LoopTurn("header", detectFromHeader(acceptLanguage, options))
       \/ LoopTurn("header", Threw)

DetectFromPath ==
    /\ AtDetector("path")
    /\ \/ \E pathname \in Pathnames :
             LoopTurn("path", detectFromPath(pathname, options))
       \/ LoopTurn("path", Threw)

\* a guard without the Array.isArray test
WritesCookieAnyIncludes(caches) == Includes(caches.v, "cookie")

\* cacheLanguage's guard: TRUE when ctx.res.setCookie is called
WritesCookie(caches) == caches.k = "array" /\ Includes(caches.v, "cookie")

\* `options.caches` as a condition
CachesTruthy(caches) == caches.k = "array" \/ (caches.k = "string" /\ caches.v # <<>>)

\* `detectedLang || options.fallbackLanguage`
FinalLanguage(lang, opts) == IF Truthy(lang) THEN lang ELSE Str(opts.fallbackLanguage)

\* a cache step that does not ask whether a language was detected
CallsCacheLanguageAlways(lang, opts) == CachesTruthy(opts.caches)

\* `detectedLang && options.caches`
CallsCacheLanguage(lang, opts) == Truthy(lang) /\ CachesTruthy(opts.caches)

\* after the loop: choose the final language, and start the cache write
AfterLoop ==
    /\ pc = "afterLoop"
    /\ finalLang' = FinalLanguage(detectedLang, options)
    /\ IF CallsCacheLanguage(detectedLang, options) /\ WritesCookie(options.caches)
       THEN /\ setCookieCalls' =
                   Append(setCookieCalls,
                          [name |-> options.lookupCookie, value |-> finalLang', failed |-> FALSE])
            /\ pc' = "setCookie"
       ELSE /\ pc' = "return"
            /\ UNCHANGED setCookieCalls
    /\ UNCHANGED <<options, ctorError, ctx, idx, detectedLang, trace, nextCalls, normVars, other>>

\* a cacheLanguage without its catch clause
CatchesCacheErrorNot == FALSE

\* the catch clause of cacheLanguage: TRUE when the error is swallowed
CatchesCacheError == TRUE

\* ctx.res.setCookie resolves or rejects
SetCookieSettled ==
    /\ pc = "setCookie"
    /\ \/ /\ pc' = "return"
          /\ UNCHANGED <<setCookieCalls, ctx>>
       \/ /\ setCookieCalls' =
                [setCookieCalls EXCEPT ![Len(setCookieCalls)].failed = TRUE]
          /\ IF CatchesCacheError
             THEN pc' = "return" /\ UNCHANGED ctx
             ELSE pc' = "rejected" /\ ctx' = [ctx EXCEPT !.rejected = "cache"]
    /\ UNCHANGED <<options, ctorError, idx, detectedLang, finalLang, trace, nextCalls, normVars, other>>

\* a handler that calls next() without assigning ctx.language first
AssignAndNextUnassigned ==
    /\ pc = "return"
    /\ nextCalls' = nextCalls + 1
    /\ pc' = "next"
    /\ UNCHANGED <<options, ctorError, ctx, idx, detectedLang, finalLang, trace,
                   setCookieCalls, normVars, other>>

\* detectLanguage returns: ctx.language is assigned and next() is called
AssignAndNext ==
    /\ pc = "return"
    /\ ctx' = [ctx EXCEPT !.language = finalLang]
    /\ nextCalls' = nextCalls + 1
    /\ pc' = "next"
    /\ UNCHANGED <<options, ctorError, idx, detectedLang, finalLang, trace,
                   setCookieCalls, normVars, other>>

\* next() resolves, or rejects and the rejection passes through
NextSettled ==
    /\ pc = "next"
    /\ \/ pc' = "done" /\ UNCHANGED ctx
       \/ pc' = "rejected" /\ ctx' = [ctx EXCEPT !.rejected = "downstream"]
    /\ UNCHANGED <<options, ctorError, idx, detectedLang, finalLang, trace,
                   setCookieCalls, nextCalls, normVars, other>>

Next ==
    \/ Language
    \/ LanguageMiddleware
    \/ DetectFromQuery
    \/ DetectFromCookie
    \/ GetCookieSettled
    \/ DetectFromHeader
    \/ DetectFromPath
    \/ AfterLoop
    \/ SetCookieSettled
    \/ AssignAndNext
    \/ NextSettled

Spec == Init /\ [][Next]_vars

(***************************************************************************)
(* normalizeLanguage called directly, as the exported function             *)
(***************************************************************************)
NormLanguageLists ==
    {l \in SeqsUpTo({<<"a">>, <<"A">>, <<"b">>}, 2) : l # <<>>}

NormOptions ==
    [supportedLanguages : NormLanguageLists,
     ignoreCase : BOOLEAN,
     convertDetectedLanguage : Hooks]

Candidates == {Undefined, Null, ArrayValue} \cup {Str(t) : t \in Texts}

InitNorm ==
    /\ pc = "normalize"
    /\ options \in {Merge(DEFAULT_OPTIONS, o) : o \in NormOptions}
    /\ candidate \in Candidates
    /\ result = Undefined
    /\ ctorError = "none"
    /\ ctx = NoCtx
    /\ idx = 0
    /\ detectedLang = Undefined
    /\ finalLang = Undefined
    /\ trace = <<>>
    /\ setCookieCalls = <<>>
    /\ nextCalls = 0
    /\ other = NewRequest

NormalizeLanguage ==
    /\ pc = "normalize"
    /\ result' = normalizeLanguage(candidate, options)
    /\ pc' = "normalized"
    /\ UNCHANGED <<options, ctorError, requestVars, candidate, other>>

NextNorm == NormalizeLanguage

SpecNorm == InitNorm /\ [][NextNorm]_vars

(***************************************************************************)
(* Properties.                                                             *)
(***************************************************************************)
\* the detector calls of this request that yielded a language
Hits == {i \in 1..Len(trace) : ~trace[i].raised /\ Truthy(trace[i].out)}

\* detectLanguage has chosen its return value
Decided ==
    \/ pc \in {"setCookie", "return", "next", "done"}
    \/ pc = "rejected" /\ ctx.rejected \in {"downstream", "cache"}

\* ctx.language has been assigned
Assigned ==
    \/ pc \in {"next", "done"}
    \/ pc = "rejected" /\ ctx.rejected = "downstream"

\* a request is being, or has been, processed
InRequest == pc \notin {"new", "threw", "idle", "normalize", "normalized"}

\* C1: the detectors are called in the configured order, one position after
\* the other; while the loop runs no earlier call has yielded a language;
\* once a call yields a language it is the last call of the request, and
\* its value is what detectLanguage returns and what ctx.language becomes.
C1_FirstSuccessWins ==
    InRequest =>
        /\ Len(trace) <= Len(options.order)
        /\ \A i \in 1..Len(trace) : trace[i].name = options.order[i]
        /\ pc \in {"loop", "getCookie"} => Hits = {}
        /\ Hits # {} =>
              /\ Hits = {Len(trace)}
              /\ Decided => finalLang = trace[Len(trace)].out
              /\ Assigned => ctx.language = trace[Len(trace)].out

\* with order [querystring, cookie, header] the query value won and neither
\* the cookie nor the header was read
C1_Witness ==
    /\ pc = "done"
    /\ options.order = <<"querystring", "cookie", "header">>
    /\ Len(trace) = 1
    /\ trace[1].name = "querystring"
    /\ ctx.language = Str(<<"b">>)

\* C2: when every detector call of the request yielded nothing or threw
\* (also when there was no call at all), detectLanguage returns the fallback
\* language, ctx.language becomes the fallback language, and setCookie is
\* never called, whatever `caches` is.
C2_FallbackWithoutCache ==
    (InRequest /\ pc # "afterLoop" /\ Hits = {}) =>
        /\ setCookieCalls = <<>>
        /\ pc # "setCookie"
        /\ Decided => finalLang = Str(options.fallbackLanguage)
        /\ Assigned => ctx.language = Str(options.fallbackLanguage)

\* two detectors, one threw and one found nothing, caching is on, and the
\* request ended with the fallback and without a cookie write
C2_Witness ==
    /\ pc = "done"
    /\ Len(trace) = 2
    /\ trace[1].raised
    /\ ~trace[2].raised
    /\ options.caches = [k |-> "array", v |-> <<"cookie">>]
    /\ ctx.language = Str(options.fallbackLanguage)
    /\ setCookieCalls = <<>>

\* C3: once a language is detected and the cache step is over, setCookie
\* was called exactly once, with options.lookupCookie and the returned
\* language, if `caches` is an array containing 'cookie', and was not called
\* at all for any other `caches`.
C3_CacheGatedByConfig ==
    (Decided /\ Hits # {}) =>
        IF options.caches.k = "array"
           /\ \E i \in 1..Len(options.caches.v) : options.caches.v[i] = "cookie"
        THEN /\ Len(setCookieCalls) = 1
             /\ setCookieCalls[1].name = options.lookupCookie
             /\ setCookieCalls[1].value = finalLang
        ELSE setCookieCalls = <<>>

\* a detected language was written under a cookie name that is not the default
C3_Witness ==
    /\ pc = "done"
    /\ Hits # {}
    /\ options.lookupCookie = "locale"
    /\ Len(setCookieCalls) = 1
    /\ setCookieCalls[1].value = ctx.language

\* what the calls after position i produced: the language of the call that
\* yielded one, or else the fallback
ProducedAfter(i) ==
    IF \E j \in Hits : j > i
    THEN trace[CHOOSE j \in Hits : j > i].out
    ELSE Str(options.fallbackLanguage)

\* C4: when a detector throws (or its cookie read rejects) the request is
\* not rejected by it, the detected language is what it was, the next
\* position of `order` is the one tried next, and the result is what the
\* later detectors, or the fallback, produce.
C4_DetectorErrorIsolated ==
    /\ ~(pc = "rejected" /\ ctx.rejected = "detector")
    /\ \A i \in 1..Len(trace) :
          trace[i].raised =>
              /\ i \notin Hits
              /\ i < Len(options.order) =>
                    \/ Len(trace) > i
                    \/ pc \in {"loop", "getCookie"} /\ idx = i + 1 /\ Len(trace) = i
              /\ i = Len(options.order) => pc # "loop"
              /\ Decided => finalLang = ProducedAfter(i)
              /\ Assigned => ctx.language = ProducedAfter(i)

\* the cookie read rejected, the header detector ran next and found the
\* language the request ended with
C4_Witness ==
    /\ pc = "done"
    /\ Len(trace) = 2
    /\ trace[1].name = "cookie"
    /\ trace[1].raised
    /\ trace[2].name = "header"
    /\ Truthy(trace[2].out)
    /\ ctx.language = trace[2].out

\* C5: when the cookie write fails the request is not rejected by it, the
\* value returned and assigned is still the detected language that was to
\* be written, and next() is called: it is the step that follows, and it
\* has been called once when the request is past it.
C5_CacheErrorIsolated ==
    (Len(setCookieCalls) = 1 /\ setCookieCalls[1].failed) =>
        /\ pc \in {"return", "next", "done", "rejected"}
        /\ pc = "rejected" => ctx.rejected = "downstream"
        /\ finalLang = detectedLang
        /\ finalLang = setCookieCalls[1].value
        /\ pc = "return" => nextCalls = 0 /\ ENABLED AssignAndNext
        /\ pc # "return" => nextCalls = 1 /\ ctx.language = setCookieCalls[1].value

\* the write failed, and the request ended with the detected language after
\* next() had run
C5_Witness ==
    /\ pc = "done"
    /\ Len(setCookieCalls) = 1
    /\ setCookieCalls[1].failed
    /\ Hits # {}
    /\ ctx.language = trace[Len(trace)].out
    /\ nextCalls = 1

\* C6: the language detectLanguage returns, and the one assigned to
\* ctx.language, is a string that is an element of
\* options.supportedLanguages, character for character.
C6_ResultIsSupported ==
    /\ Decided =>
          /\ finalLang.k = "string"
          /\ \E i \in 1..Len(options.supportedLanguages) :
                options.supportedLanguages[i] = finalLang.s
    /\ Assigned =>
          /\ ctx.language.k = "string"
          /\ \E i \in 1..Len(options.supportedLanguages) :
                options.supportedLanguages[i] = ctx.language.s

\* a case-insensitive configuration storing 'A' detected a language through
\* the query and answered with the stored spelling
C6_Witness ==
    /\ pc = "done"
    /\ options.ignoreCase
    /\ options.supportedLanguages = <<<<"A">>, <<"b">>>>
    /\ options.fallbackLanguage = <<"b">>
    /\ Len(trace) = 1
    /\ trace[1].name = "querystring"
    /\ ctx.language = Str(<<"A">>)

\* the three conditions under which language() must throw
InvalidOptions(o) ==
    \/ \A i \in 1..Len(o.supportedLanguages) :
          o.supportedLanguages[i] # o.fallbackLanguage
    \/ o.lookupFromPathIndex < 0
    \/ \E i \in 1..Len(o.order) :
          o.order[i] \notin {"path", "querystring", "cookie", "header"}

\* C7: language() throws exactly when the fallback language is not in the
\* supported list, the path index is negative, or `order` holds an unknown
\* identifier; when it throws there is an error message and no request is
\* ever processed; otherwise it returns the handler.
C7_ConstructionValidates ==
    pc \notin {"new", "normalize", "normalized"} =>
        /\ InvalidOptions(options) <=> pc = "threw"
        /\ InvalidOptions(options) <=> ctorError # "none"
        /\ pc = "threw" =>
              /\ ~ENABLED LanguageMiddleware
              /\ ctx = NoCtx
              /\ trace = <<>>
              /\ nextCalls = 0

\* construction threw because of an unknown detector, the languages and the
\* path index being valid
C7_Witness ==
    /\ pc = "threw"
    /\ ctorError = "Invalid detector type in order array"
    /\ options.lookupFromPathIndex = 1
    /\ options.fallbackLanguage = <<"b">>

\* C8: a request whose context lacks req.getCookie or res.setCookie ends
\* rejected with status 500: no detector is called, ctx.language stays
\* unset, no cookie is written and next() is not called.
C8_MissingCookiePlugin ==
    (InRequest /\ (~ctx.hasGetCookie \/ ~ctx.hasSetCookie)) =>
        /\ pc = "rejected"
        /\ ctx.rejected = "cookie plugin"
        /\ ctx.status = 500
        /\ trace = <<>>
        /\ ctx.language = Undefined
        /\ setCookieCalls = <<>>
        /\ nextCalls = 0

\* the context could read cookies and not write them, and the request was
\* rejected with status 500
C8_Witness ==
    /\ pc = "rejected"
    /\ ctx.hasGetCookie
    /\ ~ctx.hasSetCookie
    /\ ctx.status = 500

\* the text normalizeLanguage compares: trimmed, then converted by the hook
ConvertedCandidate ==
    IF options.convertDetectedLanguage = "none"
    THEN trim(candidate.s)
    ELSE Convert(options.convertDetectedLanguage, trim(candidate.s)).s

\* equality of two texts under options.ignoreCase
SameLanguage(x, y) ==
    IF options.ignoreCase THEN toLowerCase(x) = toLowerCase(y) ELSE x = y

\* the candidate is null, undefined, an array, empty or whitespace only
BlankCandidate ==
    \/ candidate.k \in {"undefined", "null", "array"}
    \/ candidate.k = "string" /\ \A i \in 1..Len(candidate.s) : candidate.s[i] \in Whitespace

\* C9: normalizeLanguage returns undefined for a null, undefined, array,
\* empty or whitespace-only candidate; for any other candidate (on which
\* the hook does not raise) it returns an element of supportedLanguages, as
\* stored, that equals the trimmed and converted candidate under
\* ignoreCase, and undefined when no element does.
C9_NormalizeContract ==
    pc = "normalized" =>
        IF BlankCandidate THEN result = Undefined
        ELSE HookRaises(candidate, options) \/
             LET matching == {i \in 1..Len(options.supportedLanguages) :
                                 SameLanguage(options.supportedLanguages[i],
                                              ConvertedCandidate)}
             IN  IF matching = {} THEN result = Undefined
                 ELSE \E i \in matching : result = Str(options.supportedLanguages[i])

\* C10: a detector call in which the conversion hook raised on every
\* candidate is recorded as returning undefined, not as throwing; and a
\* request all of whose detector calls were such calls is not rejected and
\* ends with the fallback language.
C10_HookErrorIsolated ==
    /\ \A i \in 1..Len(trace) :
          trace[i].hook => ~trace[i].raised /\ trace[i].out = Undefined
    /\ (trace # <<>> /\ \A i \in 1..Len(trace) : trace[i].hook) =>
          /\ pc = "rejected" => ctx.rejected = "downstream"
          /\ Decided => finalLang = Str(options.fallbackLanguage)
          /\ Assigned => ctx.language = Str(options.fallbackLanguage)

\* the hook raised on the query value and on the path segment, and the
\* request ended with the fallback language
C10_Witness ==
    /\ pc = "done"
    /\ options.convertDetectedLanguage = "throws"
    /\ Len(trace) = 2
    /\ trace[1].hook
    /\ trace[2].hook
    /\ ctx.language = Str(options.fallbackLanguage)

(***************************************************************************)
(* detectFromHeader called directly, as detectors.header                   *)
(***************************************************************************)
\* most entries a generated header holds
MaxEntries == 3

RECURSIVE JoinWith(_, _)
JoinWith(parts, sep) ==
    IF parts = <<>> THEN <<>>
    ELSE IF Len(parts) = 1 THEN parts[1]
    ELSE parts[1] \o <<sep>> \o JoinWith(Tail(parts), sep)

HeaderSegments == {<<"a">>, <<"b">>, <<"a", ";", "q", "=", "0">>, <<"b", ";", "q", "=", "0", ".", "5">>}

HeaderCandidates ==
    {Undefined} \cup {Str(JoinWith(segs, ",")) : segs \in SeqsUpTo(HeaderSegments, MaxEntries)}

HeaderOptions ==
    [supportedLanguages : {<<<<"a">>>>, <<<<"b">>>>, <<<<"A">>>>, <<<<"a">>, <<"b">>>>},
     ignoreCase : BOOLEAN,
     convertDetectedLanguage : {"none", "throws", "alias"}]

InitHeader ==
    /\ pc = "header"
    /\ options \in {Merge(DEFAULT_OPTIONS, o) : o \in HeaderOptions}
    /\ candidate \in HeaderCandidates
    /\ result = Undefined
    /\ ctorError = "none"
    /\ ctx = NoCtx
    /\ idx = 0
    /\ detectedLang = Undefined
    /\ finalLang = Undefined
    /\ trace = <<>>
    /\ setCookieCalls = <<>>
    /\ nextCalls = 0
    /\ other = NewRequest

\* detectors.header(ctx, options), ctx.req.get returning `candidate`
DetectHeader ==
    /\ pc = "header"
    /\ result' = detectFromHeader(candidate, options)
    /\ pc' = "headerDone"
    /\ UNCHANGED <<options, ctorError, requestVars, candidate, other>>

NextHeader == DetectHeader

SpecHeader == InitHeader /\ [][NextHeader]_vars

\* the entries of the header in the parser's order
HeaderEntries == parseAccept(candidate)

\* the positions of the entries whose type normalizes to a language
Normalizing ==
    {i \in 1..Len(HeaderEntries) :
        Truthy(normalizeLanguage(Str(HeaderEntries[i].type), options))}

FirstOf(S) == CHOOSE i \in S : \A j \in S : i <= j

\* C11: the header detector does not throw; it returns undefined when the
\* header is missing or empty or no entry's type normalizes; otherwise it
\* returns the normalized type of the first normalizing entry of the
\* parser's order, and no entry of that order before it has a lower quality.
C11_HeaderFirstNormalizing ==
    pc = "headerDone" =>
        /\ ~result.raised
        /\ IF ~Truthy(candidate) \/ Normalizing = {}
           THEN result.out = Undefined
           ELSE /\ result.out =
                      normalizeLanguage(Str(HeaderEntries[FirstOf(Normalizing)].type), options)
                /\ \A j \in 1..FirstOf(Normalizing) :
                      HeaderEntries[j].q >= HeaderEntries[FirstOf(Normalizing)].q

\* an unsupported entry of higher quality was passed over for a supported
\* one of lower quality
C11_Witness ==
    /\ pc = "headerDone"
    /\ Len(HeaderEntries) = 2
    /\ Normalizing = {2}
    /\ HeaderEntries[1].q > HeaderEntries[2].q
    /\ result.out = Str(HeaderEntries[2].type)

\* C20: the header detector returns undefined only when no entry's type
\* normalizes, whatever the qualities are; an entry of quality 0 whose type
\* normalizes, with no normalizing entry before it, is the one returned.
C20_QualityZeroStillSelected ==
    pc = "headerDone" =>
        /\ result.out = Undefined <=> Normalizing = {}
        /\ \A i \in Normalizing :
              (HeaderEntries[i].q = 0 /\ \A j \in 1..(i - 1) : j \notin Normalizing)
                  => result.out = normalizeLanguage(Str(HeaderEntries[i].type), options)

\* the only supported entry had q = 0 and was returned
C20_Witness ==
    /\ pc = "headerDone"
    /\ Normalizing # {}
    /\ HeaderEntries[FirstOf(Normalizing)].q = 0
    /\ Truthy(result.out)
    /\ result.out = Str(HeaderEntries[FirstOf(Normalizing)].type)

(***************************************************************************)
(* parseAccept called directly on generated header values                  *)
(***************************************************************************)
\* longest generated q text
MaxQLen == 3

QualityChars == {"0", "1", "5", ".", "-"}

QualityTokens ==
    {<<"N", "a", "N">>, <<"I", "n", "f", "i", "n", "i", "t", "y">>, <<"-", "I", "n", "f", "i", "n", "i", "t", "y">>, <<"+", "I", "n", "f", "i", "n", "i", "t", "y">>, <<"\"", "0", ".", "5", "\"">>,
     <<"'", "1", "'">>, <<"x">>, <<"0", ".", "2", "5">>, <<"-", "0", ".", "5">>, <<"1", ".", "5">>, <<"+", "0", ".", "5">>}

\* one entry whose q parameter has the given raw text
WithQuality(text) == <<"a", ";", "q", "=">> \o text

QualityHeaders ==
    {WithQuality(t) : t \in SeqsUpTo(QualityChars, MaxQLen) \cup QualityTokens}
        \cup {<<"a">>, <<"a", ";", "q">>, <<"a", ";", "Q", "=", "0">>, <<"a", ";", "k", "=", "0">>, <<"a", ";", "q", "=", "0", ";", "q", "=">>, <<"a", ";", "q", "=", ";", "q", "=", "0">>}

\* most segments of a generated list
MaxSegments == 4

SortSegments ==
    {<<"a">>, <<"b", ";", "q", "=", "0", ".", "5">>, <<"c", ";", "q", "=", "0", ".", "5">>, <<"d", ";", "q", "=", "0", ".", "9">>, <<"e", ";", "q", "=", "0">>, <<>>}

SortHeaders == {JoinWith(segs, ",") : segs \in SeqsUpTo(SortSegments, MaxSegments)}

\* longest generated text between two quote characters
MaxQuoted == 2

\* what may stand between two quote characters q: delimiters, blanks,
\* letters and the other quote character
InnerChars(q) == {",", ";", "x", " "} \cup (Quotes \ {q})

QuotedSpans ==
    {<<q>> \o inner \o <<q>> : q \in Quotes, inner \in SeqsUpTo({",", ";", "x", " ", "\"", "'"}, MaxQuoted)}

QuotedTails == {<<>>, <<",", "b">>, <<";", "k", "=", "1">>}

QuoteHeaders ==
    {before \o span \o tail :
        before \in {<<>>, <<"t", ";", "d", "=">>},
        span \in {s \in QuotedSpans :
                     \A i \in 2..(Len(s) - 1) : s[i] \in InnerChars(s[1])},
        tail \in QuotedTails}

\* most generated parameter chunks of an entry
MaxParams == 2

ParamChunks ==
    {<<"k", "=", "1">>, <<"k", "=", "2">>, <<"K", "=", "3">>, <<"=", "v">>, <<"k">>, <<"k", "=", "=", "v">>, <<"k", "=">>, <<"q", "=", "x">>,
     <<" ", "k", " ", "=", " ", "1", " ">>, <<>>, <<"=">>, <<"k", "=", "1", "=", "2">>, <<" ", "=", "v">>}

MalformedParams == <<"t", ";", "=", "v", ";", ";", "k", "=", ";", "=", ";", "=", "=", "=", "=", ";", "k", "=", "=", "=", "=", "v">>

DuplicateParams == <<"t", ";", "k", "=", "1", ";", "k", "=", "2", ";", "K", "=", "3">>

ParamHeaders ==
    {<<"t", ";">> \o JoinWith(chunks, ";") : chunks \in SeqsUpTo(ParamChunks, MaxParams)}
        \cup {MalformedParams, DuplicateParams}

\* longest generated header of arbitrary characters
MaxRawLen == 3

RawChars == {"a", ",", ";", "=", "\"", " "}

ConsecutiveDelimiters == <<"a", ",", ",", ",", ",", "b", ";", "q", "=", "0", ".", "9", ",", ",", ",", ",", "c", ";", "q", "=", "0", ".", "8", ",", ",", ",", ",">>

RawHeaders == SeqsUpTo(RawChars, MaxRawLen) \cup {ConsecutiveDelimiters}

ParseHeaders ==
    {Undefined, Null}
        \cup {Str(t) : t \in QualityHeaders \cup SortHeaders \cup QuoteHeaders
                                \cup ParamHeaders \cup RawHeaders}

InitParse ==
    /\ pc = "parse"
    /\ candidate \in ParseHeaders
    /\ result = Undefined
    /\ options = DEFAULT_OPTIONS
    /\ ctorError = "none"
    /\ ctx = NoCtx
    /\ idx = 0
    /\ detectedLang = Undefined
    /\ finalLang = Undefined
    /\ trace = <<>>
    /\ setCookieCalls = <<>>
    /\ nextCalls = 0
    /\ other = NewRequest

\* parseAccept(header)
ParseAccept ==
    /\ pc = "parse"
    /\ result' = parseAccept(candidate)
    /\ pc' = "parsed"
    /\ UNCHANGED <<options, ctorError, requestVars, candidate, other>>

NextParse == ParseAccept

SpecParse == InitParse /\ [][NextParse]_vars

HasQuality(e) == <<"q">> \in DOMAIN e.params

\* the header was `a;q=<text>` and parsed to one entry of the given quality
QualityCase(text, q) ==
    candidate = Str(WithQuality(text)) =>
        /\ Len(result) = 1
        /\ result[1].params[<<"q">>] = text
        /\ result[1].q = q

\* C12: every entry's q is within [0,1]; it is 1 when no q parameter was
\* accepted, when the q text is empty or is not a number (the NaN token, a
\* quoted number); +Infinity and numbers above 1 give 1, -Infinity and
\* numbers below 0 give 0, numbers in range are kept.
C12_QualityPolicy ==
    pc = "parsed" =>
        /\ \A i \in 1..Len(result) :
              LET e == result[i]
                  n == ParseNumber(e.params[<<"q">>])
              IN  /\ e.q \in 0..Scale
                  /\ ~HasQuality(e) => e.q = Scale
                  /\ (HasQuality(e) /\ e.params[<<"q">>] = <<>>) => e.q = Scale
                  /\ (HasQuality(e) /\ e.params[<<"q">>] # <<>>) =>
                        CASE n.kind \in {"NaN", "Infinity"} -> e.q = Scale
                          [] n.kind = "-Infinity" -> e.q = 0
                          [] n.v > Scale -> e.q = Scale
                          [] n.v < 0 -> e.q = 0
                          [] OTHER -> e.q = n.v
        /\ QualityCase(<<"N", "a", "N">>, Scale)
        /\ QualityCase(<<"\"", "0", ".", "5", "\"">>, Scale)
        /\ QualityCase(<<"'", "1", "'">>, Scale)
        /\ QualityCase(<<"x">>, Scale)
        /\ QualityCase(<<"-">>, Scale)
        /\ QualityCase(<<"1", ".", "5", ".">>, Scale)
        /\ QualityCase(<<>>, Scale)
        /\ QualityCase(<<"I", "n", "f", "i", "n", "i", "t", "y">>, Scale)
        /\ QualityCase(<<"-", "I", "n", "f", "i", "n", "i", "t", "y">>, 0)
        /\ QualityCase(<<"5">>, Scale)
        /\ QualityCase(<<"1", ".", "5">>, Scale)
        /\ QualityCase(<<"-", "1">>, 0)
        /\ QualityCase(<<"-", "0", ".", "5">>, 0)
        /\ QualityCase(<<"0", ".", "5">>, 500)
        /\ QualityCase(<<"0", ".", "2", "5">>, 250)
        /\ QualityCase(<<".", "5">>, 500)
        /\ QualityCase(<<"0">>, 0)
        /\ QualityCase(<<"1">>, Scale)
        /\ candidate \in {Str(<<"a">>), Str(<<"a", ";", "q">>), Str(<<"a", ";", "Q", "=", "0">>), Str(<<"a", ";", "k", "=", "0">>)}
              => (Len(result) = 1 /\ ~HasQuality(result[1]) /\ result[1].q = Scale)

\* a negative number was clamped to 0 and the NaN token defaulted to 1
C12_Witness ==
    /\ pc = "parsed"
    /\ Len(result) = 1
    /\ HasQuality(result[1])
    /\ \/ ParseNumber(result[1].params[<<"q">>]).v < 0 /\ result[1].q = 0
       \/ result[1].params[<<"q">>] = <<"N", "a", "N">> /\ result[1].q = Scale

\* the types of the entries of a list that have quality q, in list order
TypesWithQuality(entries, q) ==
    LET keep(e) == e.q = q
        kept == SelectSeq(entries, keep)
    IN  [i \in 1..Len(kept) |-> kept[i].type]

\* the types named by a header without parameters other than q and without
\* quotes, in header order, each with its quality as the parser resolves it
RECURSIVE InHeaderOrder(_)
InHeaderOrder(segments) ==
    IF segments = <<>> THEN <<>>
    ELSE LET type == trim(Split(Head(segments), ";")[1])
             one == parseAccept(Str(Head(segments)))
         IN  (IF type = <<>> THEN <<>> ELSE <<[type |-> type, q |-> one[1].q]>>)
                 \o InHeaderOrder(Tail(segments))

SortFamily == Truthy(candidate) /\ candidate.s \in SortHeaders

\* C13: the output is ordered by non-increasing q and, for every quality,
\* the entries of that quality are the header's entries of that quality in
\* the header's left-to-right order (a stable permutation).
C13_StableByQuality ==
    pc = "parsed" =>
        /\ \A i, j \in 1..Len(result) : i < j => result[i].q >= result[j].q
        /\ SortFamily =>
              LET given == InHeaderOrder(Split(candidate.s, ","))
              IN  /\ Len(result) = Len(given)
                  /\ \A q \in 0..Scale :
                        (\E i \in 1..Len(given) : given[i].q = q)
                            => TypesWithQuality(result, q) = TypesWithQuality(given, q)

\* two entries of equal quality kept their order behind a later entry of
\* higher quality
C13_Witness ==
    /\ pc = "parsed"
    /\ candidate = Str(<<"c", ";", "q", "=", "0", ".", "5", ",", "b", ";", "q", "=", "0", ".", "5", ",", "d", ";", "q", "=", "0", ".", "9">>)
    /\ Len(result) = 3
    /\ result[1].type = <<"d">>
    /\ result[2].type = <<"c">>
    /\ result[3].type = <<"b">>

\* the position of the next occurrence, after position i, of the quote
\* character at position i
ClosingQuote(s, i) ==
    CHOOSE j \in (i + 1)..Len(s) : s[j] = s[i] /\ \A k \in (i + 1)..(j - 1) : s[k] # s[i]

StartsWith(s, prefix) ==
    Len(s) >= Len(prefix) /\ SubSeq(s, 1, Len(prefix)) = prefix

\* what follows the quoted span that opens at position i
AfterSpan(s, i) == SubSeq(s, ClosingQuote(s, i) + 1, Len(s))

QuotedSpan(s, i) == SubSeq(s, i, ClosingQuote(s, i))

\* the header is a quoted span used as a parameter value (`t;d=<span>`)
QuotedValueFamily ==
    /\ Truthy(candidate)
    /\ candidate.s \in QuoteHeaders
    /\ StartsWith(candidate.s, <<"t", ";", "d", "=">>)

\* the header is a quoted span used as the type
QuotedTypeFamily ==
    /\ Truthy(candidate)
    /\ candidate.s \in QuoteHeaders
    /\ candidate.s[1] \in Quotes

\* C14: a `,` or `;` between a quote character and the next occurrence of
\* the same quote character ends neither the entry nor the parameter chunk,
\* and the quoted text appears in the output with its quote characters.
C14_QuoteAwareScanning ==
    pc = "parsed" =>
        /\ QuotedValueFamily =>
              LET span == QuotedSpan(candidate.s, 5)
                  tail == AfterSpan(candidate.s, 5)
              IN  /\ Len(result) = IF tail = <<",", "b">> THEN 2 ELSE 1
                  /\ result[1].type = <<"t">>
                  /\ DOMAIN result[1].params =
                        {<<"d">>} \cup (IF tail = <<";", "k", "=", "1">> THEN {<<"k">>} ELSE {})
                  /\ result[1].params[<<"d">>] = span
                  /\ tail = <<",", "b">> => result[2].type = <<"b">>
        /\ QuotedTypeFamily =>
              LET span == QuotedSpan(candidate.s, 1)
                  tail == AfterSpan(candidate.s, 1)
              IN  /\ Len(result) = IF tail = <<",", "b">> THEN 2 ELSE 1
                  /\ result[1].type = span
                  /\ DOMAIN result[1].params = IF tail = <<";", "k", "=", "1">> THEN {<<"k">>} ELSE {}
                  /\ tail = <<",", "b">> => result[2].type = <<"b">>

\* a quoted parameter value holding both delimiters came out whole
C14_Witness ==
    /\ pc = "parsed"
    /\ candidate = Str(<<"t", ";", "d", "=", "\"", ";", ",", "\"", ",", "b">>)
    /\ Len(result) = 2
    /\ result[1].params[<<"d">>] = <<"\"", ";", ",", "\"">>

ParamFamily == Truthy(candidate) /\ candidate.s \in ParamHeaders

\* the text of a chunk before and after its first `=`
KeyText(chunk) == trim(Split(chunk, "=")[1])

ValueText(chunk) == trim(Split(chunk, "=")[2])

\* a chunk with exactly one `=` and a key that is not blank
Accepted(chunk) == Len(Split(chunk, "=")) = 2 /\ KeyText(chunk) # <<>>

\* C15: the parameter mapping of an entry has exactly the keys of the
\* chunks with exactly one `=` and a non-blank key; each key maps to the
\* value of the last such chunk with that key; keys are case-sensitive and
\* the q key keeps its raw text.
C15_ParamsAreAcceptedChunks ==
    pc = "parsed" =>
        /\ ParamFamily =>
              LET chunks == Tail(Split(candidate.s, ";"))
                  accepted == {i \in 1..Len(chunks) : Accepted(chunks[i])}
              IN  /\ Len(result) = 1
                  /\ result[1].type = <<"t">>
                  /\ DOMAIN result[1].params = {KeyText(chunks[i]) : i \in accepted}
                  /\ \A i \in accepted :
                        (\A j \in accepted : j > i => KeyText(chunks[j]) # KeyText(chunks[i]))
                            => result[1].params[KeyText(chunks[i])] = ValueText(chunks[i])
        /\ candidate = Str(MalformedParams) =>
              result[1].params = [key \in {<<"k">>} |-> <<>>]
        /\ candidate = Str(DuplicateParams) =>
              result[1].params =
                  [key \in {<<"k">>, <<"K">>} |-> IF key = <<"k">> THEN <<"2">> ELSE <<"3">>]
        /\ candidate = Str(<<"t", ";", "q", "=", "x">>) =>
              (result[1].params[<<"q">>] = <<"x">> /\ result[1].q = Scale)

\* of seven chunks only `k=` was accepted
C15_Witness ==
    /\ pc = "parsed"
    /\ candidate = Str(MalformedParams)
    /\ Len(result) = 1
    /\ DOMAIN result[1].params = {<<"k">>}
    /\ result[1].params[<<"k">>] = <<>>

\* an entry as the parser returns it
IsEntry(e) ==
    /\ DOMAIN e = {"type", "params", "q"}
    /\ e.type # <<>>
    /\ e.type = trim(e.type)
    /\ e.q \in 0..Scale

QuoteFree(s) == \A i \in 1..Len(s) : s[i] \notin Quotes

\* C16: for every input the parser returns a sequence of entries; an
\* absent, null or empty input gives the empty sequence; blank segments
\* between commas give no entry, while every segment with a type gives one.
C16_ParserTotal ==
    pc = "parsed" =>
        /\ DOMAIN result = 1..Len(result)
        /\ \A i \in 1..Len(result) : IsEntry(result[i])
        /\ candidate \in {Undefined, Null, Str(<<>>)} => result = <<>>
        /\ (Truthy(candidate) /\ QuoteFree(candidate.s)) =>
              LET segments == Split(candidate.s, ",")
                  nonBlank == {i \in 1..Len(segments) : trim(segments[i]) # <<>>}
                  typed == {i \in 1..Len(segments) :
                               trim(Split(segments[i], ";")[1]) # <<>>}
              IN  /\ Len(result) <= Cardinality(nonBlank)
                  /\ Len(result) >= Cardinality(typed)
        /\ candidate = Str(ConsecutiveDelimiters) =>
              [i \in 1..Len(result) |-> result[i].type] = <<<<"a">>, <<"b">>, <<"c">>>>

\* runs of commas between and behind three entries left three entries
C16_Witness ==
    /\ pc = "parsed"
    /\ candidate = Str(ConsecutiveDelimiters)
    /\ Len(result) = 3

\* C17: in a request under an accepted configuration the detectors run one
\* at a time in the configured order (while the cookie read is pending every
\* earlier detector has finished and no later one has started), and each
\* detector identifier is invoked at most once in the request, whether its
\* first call returned a language, returned nothing or failed.
C17_EachStrategyOnce ==
    InRequest =>
        /\ Len(trace) <= Len(options.order)
        /\ \A i \in 1..Len(trace) : trace[i].name = options.order[i]
        /\ pc = "getCookie" => (Len(trace) = idx - 1 /\ options.order[idx] = "cookie")
        /\ \A i, j \in 1..Len(trace) : i # j => trace[i].name # trace[j].name

\* the request got past validateCookiePlugin
PassedCookieCheck == InRequest /\ ctx.rejected # "cookie plugin"

\* next() has been called: it is pending, has resolved or has rejected
NextCalled ==
    \/ pc \in {"next", "done"}
    \/ pc = "rejected" /\ ctx.rejected = "downstream"

\* the state part of C19: how often next has been called, and what holds of
\* ctx.language and the cookie write when it has
C19_NextOnceAfterAssignment ==
    PassedCookieCheck =>
        /\ nextCalls \in {0, 1}
        /\ nextCalls = 1 <=> NextCalled
        /\ nextCalls = 0 => (ctx.language = Undefined /\ ENABLED Next)
        /\ nextCalls = 1 =>
              /\ Truthy(finalLang)
              /\ ctx.language = finalLang
              /\ pc # "setCookie"
              /\ Len(setCookieCalls) <= 1
        /\ pc \in {"done", "rejected"} => nextCalls = 1

\* C19: a request that passed the cookie-capability check calls next exactly
\* once: never twice, never while the language is unassigned or the cookie
\* write is pending, and it cannot end without calling it; after the call
\* the middleware leaves ctx.language as assigned.
C19_NextExactlyOnce ==
    /\ []C19_NextOnceAfterAssignment
    /\ [][nextCalls >= 1 => (ctx'.language = ctx.language /\ nextCalls' = nextCalls)]_vars

\* next was called once, after a cookie write that failed, and has resolved
C19_Witness ==
    /\ pc = "done"
    /\ nextCalls = 1
    /\ Len(setCookieCalls) = 1
    /\ setCookieCalls[1].failed
    /\ ctx.language = finalLang

(***************************************************************************)
(* Two requests handled by one languageMiddleware closure.  Every `await`  *)
(* of the handler and of detectLanguage hands control to the event loop,   *)
(* which may resume the other request.                                     *)
(***************************************************************************)
\* what belongs to one call of the handler: its ctx argument and the locals
\* of languageMiddleware and detectLanguage
Running ==
    [pc |-> pc, ctx |-> ctx, idx |-> idx, detectedLang |-> detectedLang,
     finalLang |-> finalLang, trace |-> trace, setCookieCalls |-> setCookieCalls,
     nextCalls |-> nextCalls]

\* where a request may be while the other one runs: everywhere but inside
\* the synchronous stretch from the end of the loop to the setCookie call
SuspensionPoints == {"idle", "loop", "getCookie", "setCookie", "return", "next", "done", "rejected"}

\* a detectLanguage whose detectedLang is declared outside the function and
\* so is one variable for all requests
SwitchSharedDetectedLang ==
    /\ pc \in SuspensionPoints
    /\ other' = Running
    /\ pc' = other.pc
    /\ ctx' = other.ctx
    /\ idx' = other.idx
    /\ finalLang' = other.finalLang
    /\ trace' = other.trace
    /\ setCookieCalls' = other.setCookieCalls
    /\ nextCalls' = other.nextCalls
    /\ UNCHANGED <<options, ctorError, detectedLang, normVars>>

\* the running request is suspended and the other request is resumed
Switch ==
    /\ pc \in SuspensionPoints
    /\ other' = Running
    /\ pc' = other.pc
    /\ ctx' = other.ctx
    /\ idx' = other.idx
    /\ detectedLang' = other.detectedLang
    /\ finalLang' = other.finalLang
    /\ trace' = other.trace
    /\ setCookieCalls' = other.setCookieCalls
    /\ nextCalls' = other.nextCalls
    /\ UNCHANGED <<options, ctorError, normVars>>

\* the configurations of the shared handler
ConcOptions ==
    [order : {<<"querystring", "cookie">>, <<"path", "header">>},
     caches : {[k |-> "array", v |-> <<"cookie">>], [k |-> "false", v |-> <<>>]},
     fallbackLanguage : {<<"b">>},
     supportedLanguages : {<<<<"A">>, <<"b">>>>}]

InitConc ==
    /\ pc = "idle"
    /\ options \in {Merge(DEFAULT_OPTIONS, o) : o \in ConcOptions}
    /\ ctorError = "none"
    /\ ctx = NoCtx
    /\ idx = 0
    /\ detectedLang = Undefined
    /\ finalLang = Undefined
    /\ trace = <<>>
    /\ setCookieCalls = <<>>
    /\ nextCalls = 0
    /\ other = NewRequest
    /\ candidate = Undefined
    /\ result = Undefined

NextConc ==
    \/ LanguageMiddleware
    \/ DetectFromQuery
    \/ DetectFromCookie
    \/ GetCookieSettled
    \/ DetectFromHeader
    \/ DetectFromPath
    \/ AfterLoop
    \/ SetCookieSettled
    \/ AssignAndNext
    \/ NextSettled
    \/ Switch

SpecConc == InitConc /\ [][NextConc]_vars

\* what detectedLang holds after the detector calls of a trace: the value
\* of the last call that returned, undefined if none has
DetectedBy(calls) ==
    LET returned == {i \in 1..Len(calls) : ~calls[i].raised}
    IN  IF returned = {} THEN Undefined
        ELSE calls[CHOOSE i \in returned : \A j \in returned : j <= i].out

\* detectLanguage has chosen the return value of request r
DecidedIn(r) ==
    \/ r.pc \in {"setCookie", "return", "next", "done"}
    \/ r.pc = "rejected" /\ r.ctx.rejected \in {"downstream", "cache"}

\* request r is where it would be had it run alone: its language and its
\* cookie write follow from its own detector calls and the configuration
Alone(r) ==
    LET detected == DetectedBy(r.trace)
        final == FinalLanguage(detected, options)
        writes == CallsCacheLanguage(detected, options) /\ WritesCookie(options.caches)
    IN  /\ \A i \in 1..Len(r.trace) : r.trace[i].name = options.order[i]
        /\ r.detectedLang = detected
        /\ ~DecidedIn(r) =>
              (r.setCookieCalls = <<>> /\ r.ctx.language = Undefined /\ r.nextCalls = 0)
        /\ DecidedIn(r) =>
              /\ r.finalLang = final
              /\ Len(r.setCookieCalls) = IF writes THEN 1 ELSE 0
              /\ writes => /\ r.setCookieCalls[1].name = options.lookupCookie
                           /\ r.setCookieCalls[1].value = final
              /\ r.ctx.language = IF r.nextCalls = 1 THEN final ELSE Undefined
              /\ r.nextCalls = 1 <=> r.pc \in {"next", "done", "rejected"}

\* C18: whatever the interleaving of two requests of one handler, each
\* request's language and cookie write are those it produces alone from its
\* own detector results, and no step of a request changes the configuration.
C18_RequestsDoNotInterfere ==
    /\ [](Alone(Running) /\ Alone(other))
    /\ [][options' = options]_vars

\* both requests are in flight, one waiting for its cookie write and one
\* for next(), with different languages
C18_Witness ==
    /\ pc = "setCookie"
    /\ other.pc = "next"
    /\ finalLang # other.finalLang
    /\ setCookieCalls[1].value = finalLang
    /\ other.ctx.language = other.finalLang
    /\ Len(other.setCookieCalls) = 1

====
